---- MODULE Spec2Model ----
(***************************************************************************)
(* SimpleSprinkler: a Raspberry Pi controller that turns GPIO button edges *)
(* into activate/deactivate requests to an OpenSprinkler device.           *)
(*                                                                         *)
(* Modelled files: src/sprinkler_control.py (SprinklerControl) and         *)
(* src/opensprinkler_api.py (OpenSprinklerAPI).                            *)
(*                                                                         *)
(* Conventions.                                                            *)
(*  - A station name is the sequence of the code points of its            *)
(*    characters (<<83, 49>> is "S1"), so that str.strip() and the         *)
(*    regular expression ^[Ss]\d+$ are computed and not assumed, for every *)
(*    character of a Python str.                                           *)
(*  - Python lists are sequences (index i of the code is i+1 here), dicts  *)
(*    are functions whose DOMAIN is the set of keys.                       *)
(*  - `now` is the wall clock in milliseconds, the unit button_callback    *)
(*    uses (time.time() * 1000); the expiry toggle_station stores          *)
(*    (time.time() + duration, in seconds) is kept in milliseconds.        *)
(*  - Every HTTP request has one of three outcomes: "ok" (response.ok),    *)
(*    "bad" (a response with an error status) and "exc" (requests.get      *)
(*    raises: connection refused, DNS failure, ...).                       *)
(*  - A handler is one step up to each wait for the device (requests.get  *)
(*    has no timeout), and one step from the answer on: other threads and  *)
(*    the clock move in between.  button_callback is also cut where it     *)
(*    logs between an access of the shared attributes and the next (after  *)
(*    line 127, and after line 131).                                       *)
(*  - The program is followed from the return of setup_gpio (line 75 of    *)
(*    __init__): the callbacks are registered before the attributes of     *)
(*    lines 88-91 exist.                                                   *)
(*  - `ret` records what the handler of the most recent step did: its      *)
(*    arguments, its return value ("raised" when an exception left it,     *)
(*    "waiting" while it waits for the device, "running" while             *)
(*    button_callback is on its way to toggle_station), the requests       *)
(*    answered, the errors it logged and the toggle_station calls it made. *)
(***************************************************************************)
EXTENDS Integers, Sequences, FiniteSets, TLC

VARIABLES
    snames,             \* device: raw station names ("snames" of /jn)
    sn,                 \* device: raw station states ("sn" of /js), 0 or 1
    pc,                 \* process: "setup" (in __init__, callbacks registered,
                        \* attributes not assigned), "init" (in __init__,
                        \* waiting in load_stations), "run", "exited"
    station_names,      \* SprinklerControl.station_names
    station_indices,    \* SprinklerControl.station_indices
    active_sprinklers,  \* SprinklerControl.active_sprinklers
    last_button_press,  \* SprinklerControl.last_button_press
    now,                \* wall clock, milliseconds
    ret,                \* observation of the most recent handler
    hist,               \* history kept for the properties, never read by the code
    flight              \* per thread: the handler it is inside, and where

vars == <<snames, sn, pc, station_names, station_indices, active_sprinklers,
          last_button_press, now, ret, hist, flight>>

ctl == <<station_names, station_indices, active_sprinklers, last_button_press>>

dev == <<snames, sn>>

----------------------------------------------------------------------------
(* Threads *)

\* the one thread in which RPi.GPIO runs the registered callbacks, one after
\* the other, and the thread of whoever calls the methods of the objects
\* directly.  A thread is followed from one wait for the device to the next
\* (and, in button_callback, from one log line to the next): in between its
\* code runs as one step.
Threads == {"gpio", "caller"}

\* what a thread inside a handler holds in its locals: where it is
\* ("stamped": button_callback has written its timestamp; "chosen": it has
\* picked the duration; "request": toggle_station waits for /cm; "names":
\* get_station_status has the answer of /js and waits for /jn), the handler
\* it runs, and
\*   channel                 the edge's line (button_callback)
\*   display_id, duration    the arguments of toggle_station
\*   sid, en                 station_id and the branch taken (1 on, 0 off)
\*   status                  all_status, the "sn" of the answer of /js
Frame(at, op, channel, display_id, duration, sid, en, status) ==
    [at |-> at, op |-> op, channel |-> channel, display_id |-> display_id,
     duration |-> duration, sid |-> sid, en |-> en, status |-> status]

Idle == Frame("idle", "none", -1, -1, -1, -1, -1, <<>>)

NoFlight == [th \in Threads |-> Idle]

----------------------------------------------------------------------------
(* Program constants *)

DEBOUNCE_TIME == 300

DEFAULT_DURATION == 300

\* BUTTON_PINS: station number -> GPIO pin
BUTTON_PINS == (0 :> 26) @@ (1 :> 6) @@ (2 :> 13) @@ (3 :> 19)

ButtonPinValues == {BUTTON_PINS[s] : s \in DOMAIN BUTTON_PINS}

----------------------------------------------------------------------------
(* Bounds of the model *)

\* longest raw name list the device returns
MaxRawNames == 3

\* the clock at construction, milliseconds (any time after 1970-01-01 00:00:00.3)
Epoch == 1000

\* granularity of the clock
TimeStep == 100

\* how many times the clock advances
MaxTicks == 4

\* how many handler invocations a behaviour holds after construction
MaxOps == 3

NetOutcomes == {"ok", "bad", "exc"}

----------------------------------------------------------------------------
(* Station names *)

\* the code points str.strip() removes (str.isspace): tab, line feed, vertical
\* tab, form feed, carriage return, the separators 1C-1F, space, next line,
\* no-break space and the Unicode spaces
WhitespaceCodes ==
    {9, 10, 11, 12, 13, 28, 29, 30, 31, 32, 133, 160, 5760}
        \cup (8192..8202) \cup {8232, 8233, 8239, 8287, 12288}

IsSpace(c) == c \in WhitespaceCodes

\* the code point of the digit zero of every decimal digit set (Unicode
\* category Nd); the digits of a set follow its zero.  \d of a str pattern
\* matches all of them.
DecimalDigitZeros ==
    {48, 1632, 1776, 1984, 2406, 2534, 2662, 2790, 2918, 3046, 3174, 3302, 3430,
     3558, 3664, 3792, 3872, 4160, 4240, 6112, 6160, 6470, 6608, 6784, 6800, 6992,
     7088, 7232, 7248, 42528, 43216, 43264, 43472, 43504, 43600, 44016, 65296,
     66720, 68912, 69734, 69872, 69942, 70096, 70384, 70736, 70864, 71248, 71360,
     71472, 71904, 72016, 72784, 73040, 73120, 92768, 92864, 93008, 120782,
     120792, 120802, 120812, 120822, 123200, 123632, 125264, 130032}

IsDigit(c) == \E zero \in DecimalDigitZeros : zero <= c /\ c <= zero + 9

RECURSIVE lstrip(_)
lstrip(s) == IF s # <<>> /\ IsSpace(Head(s)) THEN lstrip(Tail(s)) ELSE s

RECURSIVE rstrip(_)
rstrip(s) ==
    IF s # <<>> /\ IsSpace(s[Len(s)]) THEN rstrip(SubSeq(s, 1, Len(s) - 1)) ELSE s

\* str.strip()
strip(s) == rstrip(lstrip(s))

\* the code points of S, s and line feed
UpperS == {83}

LowerS == {115}

LineFeed == {10}

\* [Ss], then one or more digits, and nothing else
SThenDigits(s) ==
    /\ Len(s) >= 2
    /\ s[1] \in UpperS \cup LowerS
    /\ \A i \in 2..Len(s) : IsDigit(s[i])

\* re.match(r'^[Ss]\d+$', s): without re.MULTILINE, $ matches at the end and
\* also just before a line feed that ends the string
MatchGeneric(s) ==
    \/ SThenDigits(s)
    \/ /\ s # <<>>
       /\ s[Len(s)] \in LineFeed
       /\ SThenDigits(SubSeq(s, 1, Len(s) - 1))

\* the match without the strip
IsGenericNoStrip(name) == MatchGeneric(name)

\* OpenSprinklerAPI._is_generic_station_name
_is_generic_station_name(name) == MatchGeneric(strip(name))

\* the filter of load_stations, get_station_names and get_station_status:
\* name.strip() and not self._is_generic_station_name(name)
Meaningful(name) == strip(name) # <<>> /\ ~_is_generic_station_name(name)

----------------------------------------------------------------------------
(* Dicts *)

DictSet(d, k, v) == [x \in (DOMAIN d) \cup {k} |-> IF x = k THEN v ELSE d[x]]

\* del that forgets the key
DictDelKeeps(d, k) == d

\* del d[k]
DictDel(d, k) == [x \in (DOMAIN d) \ {k} |-> d[x]]

EmptyDict == [x \in {} |-> 0]

----------------------------------------------------------------------------
(* Inputs *)

\* "S1"
NameS1 == <<83, 49>>

\* "s2"
NameLowerS2 == <<115, 50>>

\* "Front Lawn"
NameLawn == <<70, 114, 111, 110, 116, 32, 76, 97, 119, 110>>

\* "Back Garden"
NameGarden == <<66, 97, 99, 107, 32, 71, 97, 114, 100, 101, 110>>

\* names around every edge of the filter: "", " ", "S1", "s2", "S12", " S1 ",
\* "S", "S1a", "aS1", "1", "S 1", "Front Lawn"; and, past ASCII, "S1" before
\* a carriage return, S before ARABIC-INDIC DIGIT THREE (a decimal digit),
\* S before SUPERSCRIPT TWO (not one), and a lone no-break space
NamePool ==
    { <<>>, <<32>>, NameS1, NameLowerS2, <<83, 49, 50>>, <<32, 83, 49, 32>>,
      <<83>>, <<83, 49, 97>>, <<97, 83, 49>>, <<49>>, <<83, 32, 49>>, NameLawn,
      <<83, 49, 13>>, <<83, 1635>>, <<83, 178>>, <<160>> }

RECURSIVE SeqsUpTo(_, _)
SeqsUpTo(S, n) ==
    IF n = 0 THEN {<<>>}
    ELSE LET shorter == SeqsUpTo(S, n - 1)
         IN  shorter \cup {Append(q, x) : q \in {r \in shorter : Len(r) = n - 1}, x \in S}

\* every raw name list of at most MaxRawNames names of the pool
RawNameLists == SeqsUpTo(NamePool, MaxRawNames)

\* the devices the running system is exercised against: no station, one
\* station behind a generic name, and the name list of the spec's scenario
\* (display 0 -> device 1, display 1 -> device 3)
DeviceNameLists ==
    { <<>>, <<NameS1, NameLawn>>, <<NameS1, NameLawn, NameLowerS2, NameGarden, <<>>>> }

Durations == {-5, 0, 120, DEFAULT_DURATION}

\* the channels edges arrive on: the four configured pins and one that is not
UnknownPins == {5}

Channels == ButtonPinValues \cup UnknownPins

----------------------------------------------------------------------------
(* Observation records *)

Req(ep, sid, en, t, net) == [ep |-> ep, sid |-> sid, en |-> en, t |-> t, net |-> net]

Get(ep, net) == Req(ep, -1, -1, -1, net)

Call(display_id, duration, result) ==
    [display_id |-> display_id, duration |-> duration, result |-> result]

Ret(op, arg, dur, result, list, reqs, errs, calls) ==
    [op |-> op, arg |-> arg, dur |-> dur, result |-> result, list |-> list,
     reqs |-> reqs, errs |-> errs, calls |-> calls]

NoRet == Ret("none", -1, -1, "None", <<>>, <<>>, <<>>, <<>>)

----------------------------------------------------------------------------
(* The device, as the controller's requests see it *)

AllOff(names) == [i \in 1..Len(names) |-> 0]

\* /cm?sid=..&en=..: an acknowledged command sets the station's state bit
DevApply(states, req) ==
    IF req.ep = "cm" /\ req.net = "ok" /\ req.sid + 1 \in 1..Len(states)
    THEN [states EXCEPT ![req.sid + 1] = req.en]
    ELSE states

----------------------------------------------------------------------------
(* OpenSprinklerAPI *)

RECURSIVE FilterNames(_)
FilterNames(all_names) ==
    IF all_names = <<>> THEN <<>>
    ELSE IF Meaningful(Head(all_names))
         THEN <<Head(all_names)>> \o FilterNames(Tail(all_names))
         ELSE FilterNames(Tail(all_names))

\* valid_indices of get_station_status, 0-based, ascending
RECURSIVE ValidIndices(_, _)
ValidIndices(all_names, i) ==
    IF i > Len(all_names) THEN <<>>
    ELSE IF Meaningful(all_names[i])
         THEN <<i - 1>> \o ValidIndices(all_names, i + 1)
         ELSE ValidIndices(all_names, i + 1)

\* [all_status[i] for i in valid_indices if i < len(all_status)]
RECURSIVE PickStatus(_, _)
PickStatus(all_status, valid) ==
    IF valid = <<>> THEN <<>>
    ELSE IF Head(valid) < Len(all_status)
         THEN <<all_status[Head(valid) + 1]>> \o PickStatus(all_status, Tail(valid))
         ELSE PickStatus(all_status, Tail(valid))

\* Each operation yields [result, list, reqs]: result is "raised" when the
\* exception of requests.get leaves the operation, which catches nothing.

api_get_station_names(net) ==
    [result |-> IF net = "exc" THEN "raised" ELSE "list",
     list   |-> IF net = "ok" THEN FilterNames(snames) ELSE <<>>,
     reqs   |-> <<Get("jn", net)>>]

\* all_status is the "sn" the answer of /js carried
api_get_station_status(all_status, net1, net2) ==
    IF net1 = "exc"
    THEN [result |-> "raised", list |-> <<>>, reqs |-> <<Get("js", net1)>>]
    ELSE IF net1 = "bad"
    THEN [result |-> "list", list |-> <<>>, reqs |-> <<Get("js", net1)>>]
    ELSE [result |-> IF net2 = "exc" THEN "raised" ELSE "list",
          list   |-> IF net2 = "ok" THEN PickStatus(all_status, ValidIndices(snames, 1))
                     ELSE <<>>,
          reqs   |-> <<Get("js", net1), Get("jn", net2)>>]

api_activate_station(station_id, duration, net) ==
    [result |-> IF net = "exc" THEN "raised" ELSE IF net = "ok" THEN "True" ELSE "False",
     list   |-> <<>>,
     reqs   |-> <<Req("cm", station_id, 1, duration, net)>>]

api_deactivate_station(station_id, net) ==
    [result |-> IF net = "exc" THEN "raised" ELSE IF net = "ok" THEN "True" ELSE "False",
     list   |-> <<>>,
     reqs   |-> <<Req("cm", station_id, 0, -1, net)>>]

\* the blob of /ja is returned as it is; here it is the device's two lists
api_get_all_data(net) ==
    [result |-> IF net = "exc" THEN "raised" ELSE "dict",
     list   |-> IF net = "ok" THEN <<snames, sn>> ELSE <<>>,
     reqs   |-> <<Get("ja", net)>>]

----------------------------------------------------------------------------
(* History, for the properties only *)

HistInit ==
    [ops |-> 0, k |-> EmptyDict, burst |-> EmptyDict, stale |-> 0, last |-> EmptyDict,
     reads |-> {}, lastcmd |-> EmptyDict, twice |-> FALSE, overlapped |-> {}]

\* one more toggle_station call on display_id; the run of calls on it stays
\* "clean" while every call has a positive duration and an acknowledged request
HistToggle(h, display_id, duration, net) ==
    LET old == IF display_id \in DOMAIN h.k THEN h.k[display_id]
               ELSE [n |-> 0, clean |-> TRUE]
    IN  [h EXCEPT !.k = DictSet(h.k, display_id,
                                [n     |-> old.n + 1,
                                 clean |-> old.clean /\ duration > 0 /\ net = "ok"])]

\* one more edge on channel at time t, which dispatched `calls` toggles.  A
\* burst is the first edge on a line together with the edges less than
\* DEBOUNCE_TIME after it; an edge more than DEBOUNCE_TIME after the first edge
\* of the running burst opens the next burst.  An edge exactly DEBOUNCE_TIME
\* after it is in neither: it opens a burst only if it is dispatched.
HistEdge(h, channel, t, calls) ==
    LET fresh == \/ channel \notin DOMAIN h.burst
                 \/ t - h.burst[channel].start > DEBOUNCE_TIME
                 \/ t - h.burst[channel].start = DEBOUNCE_TIME /\ calls > 0
        inside == ~fresh /\ t - h.burst[channel].start < DEBOUNCE_TIME
    IN  IF fresh
        THEN [h EXCEPT !.burst = DictSet(h.burst, channel,
                                   [start |-> t, edges |-> 1, dispatched |-> calls])]
        ELSE IF inside
        THEN [h EXCEPT !.burst[channel].edges = @ + 1,
                       !.burst[channel].dispatched = @ + calls]
        ELSE h

\* one more poll; it is "stale" when the list it got reports off a display
\* index that was in `active` when it ran
HistPoll(h, status, active) ==
    IF \E d \in DOMAIN active : d < Len(status) /\ status[d + 1] = 0
    THEN [h EXCEPT !.stale = @ + 1]
    ELSE h

\* a toggle_station call on display_id returned `result` after sending `reqs`:
\* when it returned True, the request it sent (en=1 or en=0) is the last
\* successful action for display_id
HistResult(h, display_id, result, reqs) ==
    IF result = "True" /\ reqs # <<>>
    THEN [h EXCEPT !.last = DictSet(h.last, display_id,
                                    IF reqs[1].en = 1 THEN "on" ELSE "off")]
    ELSE h

\* one more handler has run; reads holds the positions of the status list
\* that this handler has read
HistOp(h) == [h EXCEPT !.ops = @ + 1, !.reads = {}]

HistRead(h, positions) == [h EXCEPT !.reads = positions]

\* the device has acknowledged a command for device index sid: twice turns
\* TRUE when it is an activate and the command acknowledged before it for sid
\* was an activate too
HistCmd(h, sid, en, net) ==
    IF net = "ok"
    THEN [h EXCEPT !.twice = @ \/ (en = 1 /\ sid \in DOMAIN h.lastcmd /\ h.lastcmd[sid] = 1),
                   !.lastcmd = DictSet(@, sid, en)]
    ELSE h

----------------------------------------------------------------------------
(* SprinklerControl *)

\* the loop of load_stations over enumerate(all_names), from position i on
RECURSIVE load_loop(_, _, _, _, _)
load_loop(all_names, i, display_idx, names, indices) ==
    IF i > Len(all_names)
    THEN [station_names |-> names, station_indices |-> indices]
    ELSE IF Meaningful(all_names[i])
         THEN load_loop(all_names, i + 1, display_idx + 1,
                        Append(names, all_names[i]),
                        DictSet(indices, display_idx, i - 1))
         ELSE load_loop(all_names, i + 1, display_idx, names, indices)

\* the registry load_stations leaves for a response that is ok
LoadedRegistry(all_names) ==
    load_loop(all_names, 1, 0, station_names, station_indices)

\* "Initialize variables" of __init__ (lines 87-91): the four attributes are
\* assigned, last_button_press last, and load_stations is called (line 92)
InitializeVariables ==
    /\ pc = "setup"
    /\ pc' = "init"
    /\ active_sprinklers' = EmptyDict
    /\ station_names' = <<>>
    /\ station_indices' = EmptyDict
    /\ last_button_press' = [pin \in ButtonPinValues |-> 0]
    /\ UNCHANGED <<dev, now, ret, hist, flight>>

\* load_stations, as __init__ calls it.  requests.get is not guarded: its
\* exception leaves load_stations and __init__, main() logs it, cleans the
\* GPIO up and returns, and the process ends.
load_stations(net) ==
    /\ pc = "init"
    /\ IF net = "ok"
       THEN /\ station_names' = LoadedRegistry(snames).station_names
            /\ station_indices' = LoadedRegistry(snames).station_indices
       ELSE UNCHANGED <<station_names, station_indices>>
    /\ pc' = IF net = "exc" THEN "exited" ELSE "run"
    /\ ret' = Ret("load_stations", -1, -1, IF net = "exc" THEN "raised" ELSE "None",
                  <<>>, <<Get("jn", net)>>,
                  IF net = "exc" THEN <<"Error">> ELSE <<>>, <<>>)
    /\ UNCHANGED <<dev, active_sprinklers, last_button_press, now, hist, flight>>

\* the range check that admits len(self.station_names)
ValidDisplayIdOffByOne(display_id) == 0 <= display_id /\ display_id <= Len(station_names)

\* 0 <= display_id < len(self.station_names)
ValidDisplayId(display_id) == 0 <= display_id /\ display_id < Len(station_names)

\* the check that lets a duration of 0 through
DurationRefusedBelowZero(duration) == duration < 0

\* duration <= 0 is refused
DurationRefused(duration) == duration <= 0

\* the branch commits when the API call returned True
Acknowledged(r) == r.result = "True"

\* the expiry toggle_station records: time.time() + duration, read when the
\* request has returned
ExpiresAt(duration) == now + duration * 1000

\* the lookup that takes the display index for the device index
StationIdIsDisplayId(display_id) == display_id

\* station_id = self.station_indices[display_id]
StationId(display_id) == station_indices[display_id]

\* toggle_station(display_id, duration) from its entry to its request: the
\* range check ("invalid"), the lookup (KeyError: "keyerror"), the read of
\* active_sprinklers and, for a station that is not in it, the duration
\* check ("refused"); "request" when it goes on to call the API
ToggleReads(op, channel, display_id, duration) ==
    IF ~ValidDisplayId(display_id)
    THEN Frame("invalid", op, channel, display_id, duration, -1, -1, <<>>)
    ELSE IF display_id \notin DOMAIN station_indices
    THEN Frame("keyerror", op, channel, display_id, duration, -1, -1, <<>>)
    ELSE IF display_id \in DOMAIN active_sprinklers
    THEN Frame("request", op, channel, display_id, duration, StationId(display_id), 0, <<>>)
    ELSE IF DurationRefused(duration)
    THEN Frame("refused", op, channel, display_id, duration, -1, -1, <<>>)
    ELSE Frame("request", op, channel, display_id, duration, StationId(display_id), 1, <<>>)

\* what toggle_station returns and logs when it ends before any request
EarlyResult(f) == IF f.at = "keyerror" THEN "raised" ELSE "False"

EarlyErrs(f) ==
    IF f.at = "invalid" THEN <<"Invalid station ID">>
    ELSE IF f.at = "refused" THEN <<"Please provide a duration">>
    ELSE <<>>

\* the observation of a toggle_station call, made directly or by
\* button_callback: button_callback returns None whatever toggle_station
\* returns, and an exception of toggle_station leaves it too
ToggleRet(f, result, reqs, errs) ==
    IF f.op = "button_callback"
    THEN Ret("button_callback", f.channel, -1,
             IF result \in {"raised", "waiting"} THEN result ELSE "None",
             <<>>, reqs, errs, <<Call(f.display_id, f.duration, result)>>)
    ELSE Ret("toggle_station", f.display_id, f.duration, result, <<>>, reqs, errs, <<>>)

\* a toggle_station call on display_id sends its request while the threads
\* of `others` wait for theirs: the calls on display_id overlap when one of
\* those requests is for display_id too
HistOverlap(h, display_id, others) ==
    IF \E o \in others : flight[o].at = "request" /\ flight[o].display_id = display_id
    THEN [h EXCEPT !.overlapped = @ \cup {display_id}]
    ELSE h

\* thread th has run toggle_station up to its request or to its early
\* return; h is the history with the call counted
Enters(th, f, h) ==
    IF f.at = "request"
    THEN /\ flight' = [flight EXCEPT ![th] = f]
         /\ ret' = ToggleRet(f, "waiting", <<>>, <<>>)
         /\ hist' = HistOverlap(h, f.display_id, Threads \ {th})
    ELSE /\ ret' = ToggleRet(f, EarlyResult(f), <<>>, EarlyErrs(f))
         /\ hist' = HistToggle(h, f.display_id, f.duration, "none")
         /\ flight' = [flight EXCEPT ![th] = Idle]

RECURSIVE DevApplyAll(_, _)
DevApplyAll(states, reqs) ==
    IF reqs = <<>> THEN states ELSE DevApplyAll(DevApply(states, Head(reqs)), Tail(reqs))

\* the constructed object takes calls, MaxOps of them in a behaviour
Running == pc = "run" /\ hist.ops < MaxOps

\* load_stations called on the constructed object, to rebuild the registry:
\* the same method, run on the station_names and station_indices the object
\* holds when the answer arrives.  Its exception goes to the caller.
load_stations_again(net) ==
    /\ Running
    /\ flight["caller"].at = "idle"
    /\ IF net = "ok"
       THEN /\ station_names' = LoadedRegistry(snames).station_names
            /\ station_indices' = LoadedRegistry(snames).station_indices
       ELSE UNCHANGED <<station_names, station_indices>>
    /\ ret' = Ret("load_stations", -1, -1, IF net = "exc" THEN "raised" ELSE "None",
                  <<>>, <<Get("jn", net)>>, <<>>, <<>>)
    /\ hist' = HistOp(hist)
    /\ UNCHANGED <<dev, pc, active_sprinklers, last_button_press, now, flight>>

\* toggle_station(display_id, duration) called directly, up to its request
toggle_station(display_id, duration) ==
    /\ Running
    /\ flight["caller"].at = "idle"
    /\ Enters("caller", ToggleReads("toggle_station", -1, display_id, duration),
              HistOp(hist))
    /\ UNCHANGED <<dev, pc, ctl, now>>

\* del self.active_sprinklers[display_id], or the assignment of the expiry,
\* on the dict as it is when the request has returned; a del of a key that
\* is gone raises KeyError
Commit(f) ==
    IF f.en = 0
    THEN IF f.display_id \in DOMAIN active_sprinklers
         THEN [result |-> "True", active |-> DictDel(active_sprinklers, f.display_id)]
         ELSE [result |-> "raised", active |-> active_sprinklers]
    ELSE [result |-> "True",
          active |-> DictSet(active_sprinklers, f.display_id, ExpiresAt(f.duration))]

\* the request of the toggle_station call of thread th is answered, and
\* toggle_station runs to its end
toggle_station_returns(th, net) ==
    /\ pc = "run"
    /\ flight[th].at = "request"
    /\ LET f == flight[th]
           r == IF f.en = 1 THEN api_activate_station(f.sid, f.duration, net)
                ELSE api_deactivate_station(f.sid, net)
           c == IF Acknowledged(r) THEN Commit(f)
                ELSE [result |-> r.result, active |-> active_sprinklers]
       IN  /\ active_sprinklers' = c.active
           /\ sn' = DevApplyAll(sn, r.reqs)
           /\ ret' = ToggleRet(f, c.result, r.reqs, <<>>)
           /\ hist' = HistCmd(HistResult(HistToggle(hist, f.display_id, f.duration, net),
                                         f.display_id, c.result, r.reqs),
                              f.sid, f.en, net)
    /\ flight' = [flight EXCEPT ![th] = Idle]
    /\ UNCHANGED <<snames, pc, station_names, station_indices, last_button_press, now>>

None == -1

\* the lookup that starts from station 0 instead of None
StationOfPinDefaultsToZero(channel) ==
    IF \E s \in DOMAIN BUTTON_PINS : BUTTON_PINS[s] = channel
    THEN CHOOSE s \in DOMAIN BUTTON_PINS : BUTTON_PINS[s] = channel
    ELSE 0

\* the lookup loop of button_callback over BUTTON_PINS.items()
StationOfPin(channel) ==
    IF \E s \in DOMAIN BUTTON_PINS : BUTTON_PINS[s] = channel
    THEN CHOOSE s \in DOMAIN BUTTON_PINS : BUTTON_PINS[s] = channel
    ELSE None

\* (current_time - self.last_button_press[channel]) > DEBOUNCE_TIME
DebounceAccepts(channel, current_time) ==
    current_time - last_button_press[channel] > DEBOUNCE_TIME

\* the update that stamps every line
RecordPressAllLines(channel, current_time) ==
    [c \in DOMAIN last_button_press |-> current_time]

\* self.last_button_press[channel] = current_time
RecordPress(channel, current_time) ==
    [last_button_press EXCEPT ![channel] = current_time]

\* the duration button_callback passes to toggle_station
ButtonDuration(station) ==
    IF station \in DOMAIN active_sprinklers THEN 0 ELSE DEFAULT_DURATION

\* button_callback(channel) from its entry to log_separator (line 128): the
\* clock, the lookup, the debounce check and the timestamp (lines 112-127).
\* The thread can be held wherever it logs while another thread runs, so
\* the read of active_sprinklers that picks the duration (line 131) and the
\* read of toggle_station (line 166) are steps of their own.
\* RPi.GPIO runs the callback in its callback thread when that thread is not
\* inside a callback, from setup_gpio (line 75) on: before the attributes
\* are assigned (lines 88-91) self.last_button_press raises AttributeError
\* at line 126, and while __init__ waits for the answer of load_stations the
\* registry is empty.  An exception that leaves the callback is printed by
\* that thread, which goes on.
button_callback(channel) ==
    /\ pc \in {"setup", "init", "run"}
    /\ hist.ops < MaxOps
    /\ flight["gpio"].at = "idle"
    /\ LET station == StationOfPin(channel) IN
       IF station = None
       THEN /\ ret' = Ret("button_callback", channel, -1, "None", <<>>, <<>>,
                          <<"Unknown button press">>, <<>>)
            /\ hist' = HistOp(hist)
            /\ UNCHANGED <<last_button_press, flight>>
       ELSE IF pc = "setup"
       THEN \* self.last_button_press raises AttributeError
            /\ ret' = Ret("button_callback", channel, -1, "raised", <<>>, <<>>, <<>>, <<>>)
            /\ hist' = HistOp(HistEdge(hist, channel, now, 0))
            /\ UNCHANGED <<last_button_press, flight>>
       ELSE IF channel \notin DOMAIN last_button_press
       THEN \* self.last_button_press[channel] raises KeyError
            /\ ret' = Ret("button_callback", channel, -1, "raised", <<>>, <<>>, <<>>, <<>>)
            /\ hist' = HistOp(hist)
            /\ UNCHANGED <<last_button_press, flight>>
       ELSE IF DebounceAccepts(channel, now)
       THEN /\ last_button_press' = RecordPress(channel, now)
            /\ flight' = [flight EXCEPT
                            !["gpio"] = Frame("stamped", "button_callback", channel,
                                              station, -1, -1, -1, <<>>)]
            /\ ret' = Ret("button_callback", channel, -1, "running", <<>>, <<>>, <<>>, <<>>)
            /\ hist' = HistOp(HistEdge(hist, channel, now, 1))
       ELSE /\ ret' = Ret("button_callback", channel, -1, "None", <<>>, <<>>, <<>>, <<>>)
            /\ hist' = HistOp(HistEdge(hist, channel, now, 0))
            /\ UNCHANGED <<last_button_press, flight>>
    /\ UNCHANGED <<dev, pc, station_names, station_indices, active_sprinklers, now>>

\* button_callback goes on from log_separator (line 128) to line 131: it
\* reads self.active_sprinklers and picks the call it will make, and logs it
button_callback_picks ==
    /\ pc \in {"init", "run"}
    /\ flight["gpio"].at = "stamped"
    /\ LET f == flight["gpio"] IN
       /\ flight' = [flight EXCEPT
                       !["gpio"] = Frame("chosen", f.op, f.channel, f.display_id,
                                         ButtonDuration(f.display_id), -1, -1, <<>>)]
       /\ ret' = Ret("button_callback", f.channel, -1, "running", <<>>, <<>>, <<>>, <<>>)
    /\ UNCHANGED <<dev, pc, ctl, now, hist>>

\* button_callback goes on from its log line to self.toggle_station(station)
\* or self.toggle_station(station, DEFAULT_DURATION) (line 133 / 136), with
\* the duration it picked: toggle_station runs up to its request or to its
\* early return on the registry and the active_sprinklers of this moment
button_callback_toggles ==
    /\ pc \in {"init", "run"}
    /\ flight["gpio"].at = "chosen"
    /\ LET f == flight["gpio"] IN
       Enters("gpio", ToggleReads("button_callback", f.channel, f.display_id, f.duration),
              hist)
    /\ UNCHANGED <<dev, pc, ctl, now>>

\* a poll that drops the entries the device reports off
ReconcilingStatusLoop(status) ==
    [d \in {x \in DOMAIN active_sprinklers : ~(x < Len(status) /\ status[x + 1] = 0)}
        |-> active_sprinklers[d]]

\* the loop that reads status[display_idx] for every station name
StatusReadsAll(status) == 0..(Len(station_names) - 1)

\* the positions of status the loop reads: display_idx < len(status)
StatusReads(status) == {d \in 0..(Len(station_names) - 1) : d < Len(status)}

\* the loop of get_station_status over enumerate(self.station_names): it logs
\* ON or OFF for the positions below len(status), and leaves active_sprinklers
AfterStatusLoop(status) == active_sprinklers

\* OpenSprinklerAPI.get_station_status has ended with r, called directly
\* (its exception goes to the caller) or by SprinklerControl.get_station_status
\* (which catches it, logs and returns None; otherwise runs its loop and
\* returns the list); h is the history with the call counted
StatusEnds(op, r, h) ==
    IF op = "api.get_station_status"
    THEN /\ ret' = Ret(op, -1, -1, r.result, r.list, r.reqs, <<>>, <<>>)
         /\ hist' = h
         /\ UNCHANGED active_sprinklers
    ELSE IF r.result = "raised"
    THEN /\ ret' = Ret(op, -1, -1, "None", <<>>, r.reqs,
                       <<"Error getting station status">>, <<>>)
         /\ hist' = h
         /\ UNCHANGED active_sprinklers
    ELSE /\ ret' = Ret(op, -1, -1, "list", r.list, r.reqs, <<>>, <<>>)
         /\ hist' = HistRead(HistPoll(h, r.list, active_sprinklers), StatusReads(r.list))
         /\ active_sprinklers' = AfterStatusLoop(r.list)

\* a status query up to the answer of /js: the call ends there when the
\* request fails, and goes on to ask for the names with all_status in hand
\* when it does not
StatusAsked(op, net1) ==
    /\ Running
    /\ flight["caller"].at = "idle"
    /\ IF net1 = "ok"
       THEN /\ flight' = [flight EXCEPT
                            !["caller"] = Frame("names", op, -1, -1, -1, -1, -1, sn)]
            /\ ret' = Ret(op, -1, -1, "waiting", <<>>, <<Get("js", net1)>>, <<>>, <<>>)
            /\ hist' = HistOp(hist)
            /\ UNCHANGED active_sprinklers
       ELSE /\ StatusEnds(op, api_get_station_status(<<>>, net1, net1), HistOp(hist))
            /\ UNCHANGED flight
    /\ UNCHANGED <<dev, pc, station_names, station_indices, last_button_press, now>>

\* the answer of /jn arrives and the status query runs to its end
StatusAnswered(op, net2) ==
    /\ pc = "run"
    /\ flight["caller"].at = "names"
    /\ flight["caller"].op = op
    /\ StatusEnds(op, api_get_station_status(flight["caller"].status, "ok", net2), hist)
    /\ flight' = [flight EXCEPT !["caller"] = Idle]
    /\ UNCHANGED <<dev, pc, station_names, station_indices, last_button_press, now>>

\* SprinklerControl.get_station_status()
get_station_status(net1) == StatusAsked("get_station_status", net1)

get_station_status_returns(net2) == StatusAnswered("get_station_status", net2)

----------------------------------------------------------------------------
(* Direct calls of the OpenSprinklerAPI operations *)

\* an operation with one request: nothing of the program is read or written
\* before the answer, so the call and its answer are one step
ApiCall(op, r) ==
    /\ Running
    /\ flight["caller"].at = "idle"
    /\ ret' = Ret(op, -1, -1, r.result, r.list, r.reqs, <<>>, <<>>)
    /\ sn' = DevApplyAll(sn, r.reqs)
    /\ hist' = HistOp(hist)
    /\ UNCHANGED <<snames, pc, ctl, now, flight>>

CallGetStationNames(net) == ApiCall("api.get_station_names", api_get_station_names(net))

CallGetStationStatus(net1) == StatusAsked("api.get_station_status", net1)

CallGetStationStatusReturns(net2) == StatusAnswered("api.get_station_status", net2)

CallActivateStation(station_id, duration, net) ==
    ApiCall("api.activate_station", api_activate_station(station_id, duration, net))

CallDeactivateStation(station_id, net) ==
    ApiCall("api.deactivate_station", api_deactivate_station(station_id, net))

CallGetAllData(net) == ApiCall("api.get_all_data", api_get_all_data(net))

----------------------------------------------------------------------------
(* Environment *)

\* time passes
Tick ==
    /\ now < Epoch + MaxTicks * TimeStep
    /\ now' = now + TimeStep
    /\ UNCHANGED <<dev, pc, ctl, ret, hist, flight>>

\* the device ends a running station by itself (its timer runs out)
DeviceStationEnds(i) ==
    /\ i \in 1..Len(sn)
    /\ sn[i] = 1
    /\ sn' = [sn EXCEPT ![i] = 0]
    /\ UNCHANGED <<snames, pc, ctl, now, ret, hist, flight>>

\* the longest run time a station is given
LongestDuration == CHOOSE d \in Durations : \A e \in Durations : e <= d

\* more than that passes at once: every run time given so far has elapsed,
\* and the device has ended every station
LongWait ==
    /\ now <= Epoch + MaxTicks * TimeStep
    /\ now' = now + LongestDuration * 1000 + TimeStep
    /\ sn' = [i \in 1..Len(sn) |-> 0]
    /\ UNCHANGED <<snames, pc, ctl, ret, hist, flight>>

----------------------------------------------------------------------------
(* Specifications *)

\* __init__ has run setup_gpio (line 75): the callbacks are registered and
\* the object has no attribute of lines 88-91 yet.  The variables of these
\* attributes hold empty values that no action reads while pc = "setup".
InitOn(lists) ==
    /\ snames \in lists
    /\ sn = AllOff(snames)
    /\ pc = "setup"
    /\ station_names = <<>>
    /\ station_indices = EmptyDict
    /\ active_sprinklers = EmptyDict
    /\ last_button_press = EmptyDict
    /\ now = Epoch
    /\ ret = NoRet
    /\ hist = HistInit
    /\ flight = NoFlight

Init == InitOn(DeviceNameLists)

\* __init__ from line 87 on
Construct == InitializeVariables \/ \E net \in NetOutcomes : load_stations(net)

\* every display index of the registry, one below the range and one above it
DisplayIds == -1..Len(station_names)

\* every device index, and one past the device's last station
DeviceIds == 0..Len(snames)

ToggleCalls ==
    \E d \in DisplayIds, duration \in Durations : toggle_station(d, duration)

CallerReturns == \E net \in NetOutcomes : toggle_station_returns("caller", net)

Edges == \E channel \in Channels : button_callback(channel)

GpioReturns ==
    \/ button_callback_picks
    \/ button_callback_toggles
    \/ \E net \in NetOutcomes : toggle_station_returns("gpio", net)

Polls == \E net1 \in NetOutcomes : get_station_status(net1)

PollReturns == \E net2 \in NetOutcomes : get_station_status_returns(net2)

DeviceEnds == \E i \in 1..Len(sn) : DeviceStationEnds(i)

\* the whole system
Next ==
    \/ Construct
    \/ ToggleCalls \/ CallerReturns
    \/ Edges \/ GpioReturns
    \/ Polls \/ PollReturns
    \/ Tick \/ DeviceEnds

Spec == Init /\ [][Next]_vars

\* construction alone, over every raw name list
InitRegistry == InitOn(RawNameLists)

SpecRegistry == InitRegistry /\ [][Construct]_vars

\* direct toggle_station calls, one at a time
NextToggle == Construct \/ ToggleCalls \/ CallerReturns \/ Tick

SpecToggle == Init /\ [][NextToggle]_vars

\* button edges, handled one after the other by the callback thread, on two
\* lines whose stations the device lists hold, a configured line whose
\* station they do not hold, and the line that is not configured
PressedLines == {BUTTON_PINS[0], BUTTON_PINS[1], BUTTON_PINS[2]} \cup UnknownPins

Presses == \E channel \in PressedLines : button_callback(channel)

NextButton == Construct \/ Presses \/ GpioReturns \/ Tick

SpecButton == Init /\ [][NextButton]_vars

\* status polls of a system whose stations are toggled and end by themselves
NextPoll ==
    Construct \/ ToggleCalls \/ CallerReturns \/ Polls \/ PollReturns \/ DeviceEnds

SpecPoll == Init /\ [][NextPoll]_vars

\* toggle_station, called directly in one thread and by button edges in the
\* callback thread
NextCalls == Construct \/ ToggleCalls \/ CallerReturns \/ Edges \/ GpioReturns

SpecCalls == Init /\ [][NextCalls]_vars

\* the OpenSprinklerAPI operations
NextApi ==
    \/ Construct
    \/ \E net \in NetOutcomes : CallGetStationNames(net)
    \/ \E net1 \in NetOutcomes : CallGetStationStatus(net1)
    \/ \E net2 \in NetOutcomes : CallGetStationStatusReturns(net2)
    \/ \E sid \in DeviceIds, net \in NetOutcomes :
          CallActivateStation(sid, DEFAULT_DURATION, net)
    \/ \E sid \in DeviceIds, net \in NetOutcomes : CallDeactivateStation(sid, net)
    \/ \E net \in NetOutcomes : CallGetAllData(net)
    \/ Edges \/ GpioReturns

SpecApi == Init /\ [][NextApi]_vars

----------------------------------------------------------------------------
(* Properties *)

\* the step just taken began a call of handler op
Began(op) == hist'.ops = hist.ops + 1 /\ ret'.op = op

\* the step just taken ended a call of handler op: the call ended in the
\* step that began it, or its thread has gone on to the end of the handler
Called(op) ==
    /\ ret'.op = op
    /\ ret'.result \notin {"waiting", "running"}
    /\ hist'.ops = hist.ops + 1 \/ (flight' # flight /\ hist'.ops = hist.ops)

\* the step just taken ended the callback of an accepted edge: the
\* toggle_station call that button_callback made has returned
AcceptedEdge == Called("button_callback") /\ ret'.calls # <<>>

\* the step just taken began the callback of an edge that the debounce check
\* accepted: the timestamp is written and the callback goes on to call
\* toggle_station
EdgeAccepted == Began("button_callback") /\ ret'.result = "running"

\* the range the claims speak of: 0 .. len(station_names) - 1
InRange(d) == d \in 0..(Len(station_names) - 1)

\* the calls on display index d so far were made one after the other, by
\* whichever thread, and none of them is waiting for its request
InSequence(d) ==
    /\ d \notin hist.overlapped
    /\ \A th \in Threads : ~(flight[th].at = "request" /\ flight[th].display_id = d)

\* C1: for a sequence of toggle_station calls on one valid display index,
\* each with a duration above 0 and an acknowledged request, the station is
\* in active_sprinklers after k calls exactly when k is odd.
C1_ToggleAlternates ==
    \A d \in DOMAIN hist.k :
        (InRange(d) /\ hist.k[d].clean /\ InSequence(d))
            => ((d \in DOMAIN active_sprinklers) <=> (hist.k[d].n % 2 = 1))

\* three such calls on one station: on, off, on
C1_Witness ==
    \E d \in DOMAIN hist.k :
        /\ InRange(d) /\ hist.k[d].clean /\ InSequence(d) /\ hist.k[d].n = 3
        /\ d \in DOMAIN active_sprinklers

\* C2: when the request toggle_station sends fails (an error status or a
\* transport failure), active_sprinklers is as before the call and the call
\* returns False.
C2_FailedToggleReportsFailure ==
    [][(Called("toggle_station") /\ ret'.reqs # <<>> /\ ret'.reqs[1].net # "ok")
          => (active_sprinklers' = active_sprinklers /\ ret'.result = "False")]_vars

\* the part of C2 the code keeps: a failed request never changes
\* active_sprinklers, and an error status makes the call return False
C2_FailedToggleLeavesState ==
    [][(Called("toggle_station") /\ ret'.reqs # <<>> /\ ret'.reqs[1].net # "ok")
          => /\ active_sprinklers' = active_sprinklers
             /\ ret'.reqs[1].net = "bad" => ret'.result = "False"]_vars

\* the filter as the claim words it, without strip or the match: a name is
\* blank when nothing but whitespace is in it, and generic when, between
\* leading and trailing whitespace, it is S or s followed by digits only
ClaimBlank(name) == \A i \in 1..Len(name) : IsSpace(name[i])

ClaimGeneric(name) ==
    \E a \in 1..Len(name), b \in 1..Len(name) :
        /\ a < b
        /\ \A i \in 1..(a - 1) : IsSpace(name[i])
        /\ \A i \in (b + 1)..Len(name) : IsSpace(name[i])
        /\ name[a] \in UpperS \cup LowerS
        /\ \A i \in (a + 1)..b : IsDigit(name[i])

\* the device indices (0-based) whose names pass
ClaimKept(names) ==
    {i \in 0..(Len(names) - 1) : ~ClaimBlank(names[i + 1]) /\ ~ClaimGeneric(names[i + 1])}

LoadedOk == pc = "run" /\ ret.op = "load_stations" /\ ret.reqs[1].net = "ok"

\* C3: for every raw name list, load_stations on a fresh controller leaves
\* display indices 0..N-1, N the number of names that are neither blank nor
\* generic, and display index k maps to the k-th smallest device index whose
\* name passes (and station_names[k] is that name).
C3_RegistryIsFilteredInOrder ==
    LoadedOk =>
        LET kept == ClaimKept(snames) IN
        /\ DOMAIN station_indices = 0..(Cardinality(kept) - 1)
        /\ Len(station_names) = Cardinality(kept)
        /\ \A k \in DOMAIN station_indices :
              /\ station_indices[k] \in kept
              /\ Cardinality({j \in kept : j < station_indices[k]}) = k
              /\ station_names[k + 1] = snames[station_indices[k] + 1]

\* a list of three names whose first is dropped: display 0 -> device 1,
\* display 1 -> device 2
C3_Witness ==
    /\ LoadedOk
    /\ Len(snames) = 3
    /\ ClaimGeneric(snames[1])
    /\ DOMAIN station_indices = {0, 1}
    /\ station_indices[0] = 1 /\ station_indices[1] = 2

\* C4: of the edges of one burst on a configured line (the first edge and the
\* edges less than DEBOUNCE_TIME after it), exactly one dispatches a
\* toggle_station call, whatever that call returns and whatever happens on
\* the other lines.
C4_OneTogglePerBurst ==
    \A c \in DOMAIN hist.burst : hist.burst[c].dispatched = 1

\* C5: an edge on a line that is not in BUTTON_PINS calls no toggle_station,
\* sends no request, leaves active_sprinklers, the device and every debounce
\* time as they are, logs an error and returns normally.
C5_UnknownLineIsReportedOnly ==
    [][(Called("button_callback") /\ ret'.arg \notin ButtonPinValues)
          => /\ ret'.calls = <<>>
             /\ ret'.reqs = <<>>
             /\ ret'.errs # <<>>
             /\ ret'.result = "None"
             /\ UNCHANGED <<ctl, dev, pc>>]_vars

\* an edge on the unknown line while a station is active and a line is
\* inside its window
C5_Witness ==
    /\ ret.op = "button_callback"
    /\ ret.arg \in UnknownPins
    /\ active_sprinklers # EmptyDict
    /\ \E pin \in ButtonPinValues : last_button_press[pin] = now

\* C6: toggle_station with a display index outside the loaded registry's
\* range (any index when the registry is empty; the station of a configured
\* line that is not below the registry's size) returns False, sends no
\* request and leaves active_sprinklers and the device as they are.
C6_OutOfRangeIsRejected ==
    [][/\ (Called("toggle_station") /\ ~InRange(ret'.arg))
            => /\ ret'.result = "False"
               /\ ret'.reqs = <<>>
               /\ UNCHANGED <<active_sprinklers, sn>>
       /\ (Called("button_callback") /\ ret'.calls # <<>>
              /\ ~InRange(ret'.calls[1].display_id))
            => /\ ret'.calls[1].result = "False"
               /\ ret'.reqs = <<>>
               /\ UNCHANGED <<active_sprinklers, sn>>]_vars

\* the edge of a configured line whose station is not loaded, while another
\* station is active
C6_Witness ==
    /\ ret.op = "button_callback"
    /\ ret.calls # <<>>
    /\ ~InRange(ret.calls[1].display_id)
    /\ ret.calls[1].result = "False"
    /\ active_sprinklers # EmptyDict

\* the step just taken ended a call of handler op that had waited for the
\* device
Returned(op) == Called(op) /\ ~Began(op)

\* C7: toggle_station on a valid display index that is not in
\* active_sprinklers with a duration of 0 or less returns False before any
\* request and leaves active_sprinklers; on a display index that is in
\* active_sprinklers it sends the deactivate request whatever the duration,
\* and the entry is gone when the request has been acknowledged.
C7_DurationCheckedOnActivateOnly ==
    [][/\ (Began("toggle_station") /\ InRange(ret'.arg)) =>
             /\ (ret'.arg \notin DOMAIN active_sprinklers /\ ret'.dur <= 0)
                   => /\ ret'.result = "False"
                      /\ ret'.reqs = <<>>
                      /\ UNCHANGED <<active_sprinklers, sn, flight>>
             /\ (ret'.arg \in DOMAIN active_sprinklers)
                   => /\ flight'["caller"].at = "request"
                      /\ flight'["caller"].en = 0
       /\ (Returned("toggle_station") /\ flight["caller"].en = 0) =>
             /\ Len(ret'.reqs) = 1
             /\ ret'.reqs[1].ep = "cm" /\ ret'.reqs[1].en = 0
             /\ ret'.reqs[1].net = "ok"
                  => /\ ret'.arg \notin DOMAIN active_sprinklers'
                     /\ ret'.arg \in DOMAIN active_sprinklers
                           => ret'.result = "True"]_vars

\* a duration of 0 refused for an inactive station while another is active
C7_Witness ==
    /\ ret.op = "toggle_station"
    /\ InRange(ret.arg)
    /\ ret.arg \notin DOMAIN active_sprinklers
    /\ ret.dur = 0
    /\ ret.result = "False"
    /\ ret.reqs = <<>>
    /\ active_sprinklers # EmptyDict

ApiOps ==
    {"api.get_station_names", "api.get_station_status", "api.activate_station",
     "api.deactivate_station", "api.get_all_data"}

\* C8: every OpenSprinklerAPI operation whose request meets a network failure
\* ends with False or an empty result, never with an exception.
C8_ApiNeverRaises ==
    (ret.op \in ApiOps /\ \E i \in 1..Len(ret.reqs) : ret.reqs[i].net # "ok")
        => /\ ret.result # "raised"
           /\ ret.result = "False" \/ ret.list = <<>>

\* C9: when the request of load_stations fails (an error status or a
\* transport failure), the registry is empty and construction completes.
C9_FailedDiscoveryLeavesEmptyRegistry ==
    (ret.op = "load_stations" /\ ret.reqs[1].net # "ok")
        => /\ pc = "run"
           /\ station_names = <<>>
           /\ station_indices = EmptyDict

\* the poll just made got a list that reports display index d off
ReportedOff(d) ==
    ret'.result = "list" /\ d < Len(ret'.list) /\ ret'.list[d + 1] = 0

\* C10: a poll that sees the device report off a display index that is in
\* active_sprinklers removes the entry.  The loop of get_station_status
\* (lines 189-194) only logs: the entry stays, at this poll and at the next.
C10_PollRemovesStoppedStation ==
    [][Called("get_station_status") =>
          \A d \in DOMAIN active_sprinklers :
              ReportedOff(d) => d \notin DOMAIN active_sprinklers']_vars

----------------------------------------------------------------------------
(* The controller and the device side by side *)

\* toggles, by call and by button, of stations whose run time elapses
NextDevice ==
    Construct \/ ToggleCalls \/ CallerReturns \/ Edges \/ GpioReturns \/ LongWait

SpecDevice == Init /\ [][NextDevice]_vars

\* C11: the local view is never a false "on": a display index d in
\* active_sprinklers means the device is running station station_indices[d]
\* (on at an acknowledged activate, off at an acknowledged deactivate or when
\* its run time has elapsed).
C11_NeverFalseOn ==
    \A d \in DOMAIN active_sprinklers :
        /\ d \in DOMAIN station_indices
        /\ station_indices[d] + 1 \in 1..Len(sn)
        /\ sn[station_indices[d] + 1] = 1

\* C13: an edge on a configured line at a time T that is DEBOUNCE_TIME or
\* more after the last accepted edge of that line, T exactly DEBOUNCE_TIME
\* after it included, is accepted: it restarts the window and dispatches a
\* toggle.
C13_BoundaryEdgeIsFresh ==
    [][(/\ Began("button_callback")
        /\ ret'.arg \in DOMAIN last_button_press
        /\ now - last_button_press[ret'.arg] >= DEBOUNCE_TIME)
          => /\ last_button_press'[ret'.arg] = now
             /\ EdgeAccepted]_vars

\* direct calls with one refused and one accepted duration
SessionToggles ==
    \E d \in DisplayIds, duration \in {0, DEFAULT_DURATION} : toggle_station(d, duration)

\* every operation of the controller, and run times elapsing on the device
NextSessions ==
    \/ Construct
    \/ SessionToggles \/ CallerReturns
    \/ Edges \/ GpioReturns
    \/ Polls \/ PollReturns
    \/ LongWait

SpecSessions == Init /\ [][NextSessions]_vars

SessionsFollowToggles ==
    \A d \in (DOMAIN active_sprinklers) \cup (DOMAIN hist.last) :
        (d \in DOMAIN active_sprinklers)
            <=> (d \in DOMAIN hist.last /\ hist.last[d] = "on")

OnlySuccessfulTogglesChangeSessions ==
    active_sprinklers' # active_sprinklers
        => \/ Called("toggle_station") /\ ret'.result = "True"
           \/ /\ Called("button_callback")
              /\ ret'.calls # <<>>
              /\ ret'.calls[1].result = "True"

\* C14: a display index is in active_sprinklers exactly when the last
\* toggle_station call for it that returned True sent an activate; nothing
\* else (a status query, a dropped or unknown edge, a rejected or failed
\* toggle, time passing the recorded expiry) adds or removes an entry.
C14_SessionsChangeOnlyBySuccessfulToggle ==
    []SessionsFollowToggles /\ [][OnlySuccessfulTogglesChangeSessions]_vars

\* a poll has seen the device report off a station whose recorded expiry has
\* passed, and the entry is still there
C14_Witness ==
    /\ ret.op = "get_station_status"
    /\ hist.stale >= 1
    /\ \E d \in DOMAIN active_sprinklers :
          /\ active_sprinklers[d] < now
          /\ ret.result = "list" /\ d < Len(ret.list) /\ ret.list[d + 1] = 0

----------------------------------------------------------------------------
(* Rebuilding the registry *)

Rebuilds == \E net \in NetOutcomes : load_stations_again(net)

NextReload == Construct \/ Rebuilds \/ ToggleCalls \/ CallerReturns

SpecReload == Init /\ [][NextReload]_vars

\* the registry one load_stations call builds from the device's names
BuiltOnce == load_loop(snames, 1, 0, <<>>, EmptyDict)

\* C15: rebuilding is idempotent: after a load_stations call that received
\* the device's name list, however many went before it, station_names and
\* station_indices are what one call builds; the number of names equals the
\* number of display indices, and every index the range check of
\* toggle_station accepts has a device index.
C15_RebuildIsIdempotent ==
    /\ Len(station_names) = Cardinality(DOMAIN station_indices)
    /\ \A d \in 0..(Len(station_names) - 1) : d \in DOMAIN station_indices
    /\ (ret.op = "load_stations" /\ ret.reqs[1].net = "ok")
          => /\ station_names = BuiltOnce.station_names
             /\ station_indices = BuiltOnce.station_indices

----------------------------------------------------------------------------
(* Commands and the device index *)

\* the toggle_station call of the step just taken: its display index
ToggledDisplayId ==
    IF ret'.op = "toggle_station" THEN ret'.arg ELSE ret'.calls[1].display_id

ToggleRan ==
    \/ Called("toggle_station")
    \/ Called("button_callback") /\ ret'.calls # <<>>

\* C16: every activate or deactivate command toggle_station sends for display
\* index d carries the device index of the d-th name (from 0) that passed the
\* filter in the device's name list, which is station_indices[d]; not the
\* display index, not the pin.
C16_CommandsCarryDeviceIndex ==
    [][(ToggleRan /\ ret'.reqs # <<>>) =>
          LET d == ToggledDisplayId
              kept == ClaimKept(snames)
          IN  \A k \in 1..Len(ret'.reqs) :
                  /\ ret'.reqs[k].ep = "cm"
                  /\ ret'.reqs[k].sid \in kept
                  /\ Cardinality({j \in kept : j < ret'.reqs[k].sid}) = d
                  /\ ret'.reqs[k].sid = station_indices[d]]_vars

\* the button on GPIO 6 (display index 1) has sent a command for device
\* index 3, past two dropped names
C16_Witness ==
    /\ ret.op = "button_callback"
    /\ ret.arg = BUTTON_PINS[1]
    /\ ret.calls # <<>>
    /\ ret.calls[1].display_id = 1
    /\ ret.reqs # <<>>
    /\ ret.reqs[1].sid = 3
    /\ ret.reqs[1].sid # ret.calls[1].display_id

----------------------------------------------------------------------------
(* Button edges: duration and frame *)

\* C18: every activate command sent for an accepted edge carries duration
\* exactly DEFAULT_DURATION, and on its success the entry recorded expires at
\* the time of the activation plus DEFAULT_DURATION seconds; an accepted edge
\* for a station that is in active_sprinklers when the edge is handled (the
\* callback then picks duration 0, line 131-133) sends one deactivate
\* command and no activate command.
C18_ButtonUsesDefaultDuration ==
    [][AcceptedEdge =>
          LET d == ret'.calls[1].display_id IN
          /\ \A k \in 1..Len(ret'.reqs) :
                ret'.reqs[k].en = 1 => ret'.reqs[k].t = DEFAULT_DURATION
          /\ (ret'.reqs # <<>> /\ ret'.reqs[1].en = 1 /\ ret'.calls[1].result = "True")
                => /\ d \in DOMAIN active_sprinklers'
                   /\ active_sprinklers'[d] = now + DEFAULT_DURATION * 1000
          /\ flight["gpio"].duration = 0
                => /\ Len(ret'.reqs) = 1
                   /\ ret'.reqs[1].en = 0]_vars

\* the step just taken was an edge on a configured line that the debounce
\* check dropped
DroppedEdge ==
    /\ Called("button_callback")
    /\ ret'.arg \in ButtonPinValues
    /\ ret'.result = "None"
    /\ ret'.calls = <<>>

\* C19: an edge dropped by the debounce check changes nothing:
\* last_button_press of every line, active_sprinklers, the registry and the
\* device are as before and no request is sent; an accepted edge sets the
\* timestamp of its own line to the time of the edge and leaves the
\* timestamps of the other lines, and the later return of its toggle
\* leaves every timestamp.
C19_DroppedEdgeChangesNothing ==
    [][/\ DroppedEdge => (UNCHANGED <<ctl, dev, pc>> /\ ret'.reqs = <<>>)
       /\ EdgeAccepted =>
             /\ last_button_press'[ret'.arg] = now
             /\ \A c \in DOMAIN last_button_press \ {ret'.arg} :
                   last_button_press'[c] = last_button_press[c]
       /\ (AcceptedEdge /\ ~EdgeAccepted) => UNCHANGED last_button_press]_vars

\* an edge on one line has been dropped while another line holds a
\* different, earlier accepted timestamp and a station is running
C19_Witness ==
    /\ ret.op = "button_callback"
    /\ ret.result = "None"
    /\ ret.arg \in ButtonPinValues
    /\ ret.calls = <<>>
    /\ active_sprinklers # EmptyDict
    /\ \E c \in DOMAIN last_button_press \ {ret.arg} :
          /\ last_button_press[c] >= Epoch
          /\ last_button_press[c] # last_button_press[ret.arg]

----------------------------------------------------------------------------
(* The filtered status list *)

StatusNamePool == {NameS1, NameLawn}

\* every device of at most MaxRawNames names, with every state list of at
\* most MaxRawNames bits, shorter and longer than the name list included
InitStatus ==
    /\ snames \in SeqsUpTo(StatusNamePool, MaxRawNames)
    /\ sn \in SeqsUpTo({0, 1}, MaxRawNames)
    /\ pc = "setup"
    /\ station_names = <<>>
    /\ station_indices = EmptyDict
    /\ active_sprinklers = EmptyDict
    /\ last_button_press = EmptyDict
    /\ now = Epoch
    /\ ret = NoRet
    /\ hist = HistInit
    /\ flight = NoFlight

NextStatus ==
    \/ Construct
    \/ Polls \/ PollReturns
    \/ \E net1 \in NetOutcomes : CallGetStationStatus(net1)
    \/ \E net2 \in NetOutcomes : CallGetStationStatusReturns(net2)
    \/ DeviceEnds

SpecStatus == InitStatus /\ [][NextStatus]_vars

\* the device indices whose names pass and that the state list covers
KeptWithin == {j \in ClaimKept(snames) : j < Len(sn)}

\* the step just taken ended a status query whose two requests were answered
StatusListReturned ==
    /\ Called("api.get_station_status") \/ Called("get_station_status")
    /\ Len(ret'.reqs) = 2
    /\ ret'.reqs[1].net = "ok"
    /\ ret'.reqs[2].net = "ok"

\* C17: for every name list and every state list of the device, the list
\* OpenSprinklerAPI.get_station_status returns has one element for each kept
\* device index that the state list covers; element k is the state of the
\* k-th kept device index in the state list the device answered; and the
\* loop of
\* SprinklerControl.get_station_status reads exactly the positions of its
\* registry that are below the length of the list.
C17_StatusIsFilteredAndTruncated ==
    [][/\ StatusListReturned =>
             /\ ret'.result = "list"
             /\ Len(ret'.list) = Cardinality(KeptWithin)
             /\ \A j \in KeptWithin :
                   ret'.list[Cardinality({i \in ClaimKept(snames) : i < j}) + 1]
                       = flight["caller"].status[j + 1]
       /\ Called("get_station_status") =>
             /\ \A d \in hist'.reads : d < Len(ret'.list)
             /\ \A d \in 0..(Len(station_names) - 1) :
                   d < Len(ret'.list) => d \in hist'.reads]_vars

\* the state list is shorter than the name list: two names are kept, the
\* state list covers the first only, the list returned is <<1>> and the loop
\* has read position 0 and not position 1
C17_Witness ==
    /\ ret.op = "get_station_status"
    /\ Len(sn) < Len(snames)
    /\ Len(station_names) = 2
    /\ ret.list = <<1>>
    /\ hist.reads = {0}

----------------------------------------------------------------------------
(* Two threads *)

\* a request that hangs is one for which toggle_station_returns is never
\* taken: requests.get is called without a timeout

ThreadCalls == \E d \in DisplayIds : toggle_station(d, DEFAULT_DURATION)

NextThreads == Construct \/ Edges \/ GpioReturns \/ ThreadCalls \/ CallerReturns

SpecThreads == Init /\ [][NextThreads]_vars

\* C12: while the request of the toggle started by an edge has not returned,
\* an edge on another configured line is still processed: its debounce check
\* runs and its toggle is dispatched.
C12_HungRequestBlocksOnlyItsToggle ==
    (Running /\ flight["gpio"].at = "request")
        => \A channel \in ButtonPinValues \ {flight["gpio"].channel} :
              ENABLED button_callback(channel)

\* the handler that ended last was left by the KeyError of
\* del self.active_sprinklers[display_id]: its request was acknowledged and
\* an exception left toggle_station all the same
CommitRaised ==
    /\ ret.op \in {"toggle_station", "button_callback"}
    /\ ret.result = "raised"
    /\ ret.reqs # <<>>
    /\ ret.reqs[1].net = "ok"

\* C20: overlapping toggle_station calls on one display index are serialized:
\* no commit removes an entry that is already gone (KeyError), and the device
\* never acknowledges two activates for a station with no deactivate between.
C20_OverlappingTogglesAreSerialized ==
    /\ ~CommitRaised
    /\ ~hist.twice

====
